---- MODULE Spec2Model ----
(***************************************************************************)
(* Model of the video_transcriber service: POST /transcribe is handled by  *)
(* transcribe_media (src/app/entrypoints/fastapi_app.py), which goes       *)
(* through ServiceManager.transcribe_media, OpenAITranscriptionAdapter     *)
(* .transcribe_from_upload and FFmpegAudioExtractionAdapter.               *)
(*                                                                         *)
(* Strings are sequences of one-character strings, so that suffix, stem,   *)
(* lower-casing and startswith are computed, not assumed.  A missing       *)
(* filename or content type (None) and the empty string are both falsy in  *)
(* the source (`x or ""`, `not x`) and are both written << >>.             *)
(*                                                                         *)
(* Scheduling: main.py runs one uvicorn process, the handler is an         *)
(* `async def`, and ffmpeg.run and the OpenAI client are blocking calls,   *)
(* so a request gives up the event loop only at `await uploaded_file.seek` *)
(* and `await uploaded_file.read`.  `running` is the request that holds    *)
(* the loop.                                                               *)
(***************************************************************************)
EXTENDS Integers, Sequences, FiniteSets, TLC

\* ---------------------------------------------------------------- bounds
NumRequests == 2    \* request slots served by the event loop
NumPaths == 3       \* names the temporary-file allocator can hand out
MaxNameLen == 5     \* longest filename enumerated for the prober

Requests == 1..NumRequests
Paths == 1..NumPaths

\* ------------------------------------------------------- string helpers
UpperLetters ==
  <<"A","B","C","D","E","F","G","H","I","J","K","L","M",
    "N","O","P","Q","R","S","T","U","V","W","X","Y","Z">>
LowerLetters ==
  <<"a","b","c","d","e","f","g","h","i","j","k","l","m",
    "n","o","p","q","r","s","t","u","v","w","x","y","z">>

\* str.lower() on one character
LowerChar(c) ==
  IF \E i \in 1..Len(UpperLetters) : UpperLetters[i] = c
  THEN LowerLetters[CHOOSE i \in 1..Len(UpperLetters) : UpperLetters[i] = c]
  ELSE c

\* str.lower() (v binds the argument's value, so that it is computed once)
Lower(s) == CHOOSE t \in { [i \in 1..Len(v) |-> LowerChar(v[i])] : v \in {s} } : TRUE

\* str.startswith(prefix)
StartsWith(s, prefix) ==
  /\ Len(prefix) <= Len(s)
  /\ SubSeq(s, 1, Len(prefix)) = prefix

\* Python `x or default` on a string (None and "" are falsy)
OrDefault(s, default) == IF s = << >> THEN default ELSE s

\* str.rfind(c), 1-based; 0 when c does not occur (Python: -1)
RFind(s, c) ==
  IF \E i \in 1..Len(s) : s[i] = c
  THEN CHOOSE i \in 1..Len(s) : s[i] = c /\ \A j \in (i+1)..Len(s) : s[j] # c
  ELSE 0

\* pathlib: the path's components, split at "/" with empty and "." parts dropped
RECURSIVE PathParts(_)
PathParts(s) ==
  IF s = << >> THEN << >>
  ELSE LET k == RFind(s, "/")
           last == SubSeq(s, k + 1, Len(s))
           rest == IF k = 0 THEN << >> ELSE PathParts(SubSeq(s, 1, k - 1))
       IN IF last = << >> \/ last = <<".">> THEN rest ELSE Append(rest, last)

\* pathlib PurePath.name: the final component, "" when there is none
PathName(s) ==
  LET parts == PathParts(s)
  IN IF parts = << >> THEN << >> ELSE parts[Len(parts)]

\* pathlib PurePath.suffix: name[i:] where i = name.rfind(".") and
\* 0 < i < len(name) - 1 (0-based); "" otherwise
PathSuffix(s) ==
  LET name == PathName(s)
      i == RFind(name, ".")
  IN IF 1 < i /\ i < Len(name) THEN SubSeq(name, i, Len(name)) ELSE << >>

\* pathlib PurePath.stem: name[:i] under the same condition, else name
PathStem(s) ==
  LET name == PathName(s)
      i == RFind(name, ".")
  IN IF 1 < i /\ i < Len(name) THEN SubSeq(name, 1, i - 1) ELSE name

\* -------------------------------------------------- program constants
Mp3Suffix == <<".","m","p","3">>
AudioFallback == <<"a","u","d","i","o">>
DefaultModel == "whisper-1"
GenericError == "Error interno del servidor"

\* the list tested at extract_audio_stream
SupportedExtensions ==
  { <<".","m","p","3">>, <<".","w","a","v">>, <<".","m","4","a">>,
    <<".","f","l","a","c">>, <<".","o","g","g">> }

\* the tuple tested at transcribe_media
AcceptedPrefixes ==
  { <<"a","u","d","i","o","/">>, <<"v","i","d","e","o","/">> }

\* ------------------------------------------------------------- inputs
\* Filenames and content types of the uploads enumerated for the pipeline.
ClipMp4 == <<"c","l","i","p",".","m","p","4">>
VoiceMp3 == <<"v","o","i","c","e",".","m","p","3">>
Filenames == { << >>, ClipMp4, VoiceMp3 }

VideoMp4 == <<"v","i","d","e","o","/","m","p","4">>
AudioMpeg == <<"a","u","d","i","o","/","m","p","e","g">>
ApplicationPdf == <<"a","p","p","l","i","c","a","t","i","o","n","/","p","d","f">>
ContentTypes == { << >>, VideoMp4, AudioMpeg, ApplicationPdf }

Omitted == "<omitted>"
ModelFields == { Omitted, "gpt-4o-transcribe" }

\* what the remote API and the tool can answer
Texts == { "hola mundo", "" }
Diagnostics == { "Invalid data found when processing input", "" }

\* ------------------------------------------------------------- state
VARIABLES
  running,        \* the request holding the event loop, 0 when it is free
  pc,             \* each request's position in the code
  ctype,          \* file.content_type
  filename,       \* file.filename
  modelField,     \* the `model` form field as sent
  upos,           \* position of the upload's stream: "start" or "end"
  fs,             \* temporary paths that exist
  creator,        \* per path, the request in flight that created it ({} when
                  \* the path does not exist or its request is over)
  inPath,         \* input_temp.name
  outPath,        \* output_temp.name
  exc,            \* the exception in flight
  audio,          \* (audio_stream, filename) handed to the client
  toolRuns,       \* times ffmpeg was started for this request
  toolActive,     \* ffmpeg is running for this request
  toolExit,       \* "none", "ok" or "failed"
  toolStderr,     \* stderr captured from the failed run
  apiCalls,       \* times transcriptions.create was called for this request
  apiActive,      \* the API call is in progress
  apiArgs,        \* arguments of the API call
  apiExit,        \* "none", "ok" or "failed"
  transcription,  \* text the API returned
  ret,            \* value the handler returned
  resp,           \* HTTP response sent
  managerCalls,   \* times ServiceManager.transcribe_media was entered
  tempCount,      \* temporary files this request created
  respCount,      \* HTTP responses sent for this request
  lastAccess      \* file operations of the last step

inputs == <<ctype, filename, modelField>>
files == <<fs, creator>>
temps == <<inPath, outPath>>
tool == <<toolRuns, toolActive, toolExit, toolStderr>>
api == <<apiCalls, apiActive, apiArgs, apiExit, transcription>>
out == <<ret, resp>>
counts == <<managerCalls, tempCount, respCount>>
vars == <<running, pc, upos, exc, audio, lastAccess, inputs, files, temps, tool, api, out, counts>>

NoExc == [kind |-> "none", stderr |-> ""]
NoAudio == [stream |-> "none", name |-> << >>]
NoArgs == [model |-> "", name |-> << >>, stream |-> "none", pos |-> "start"]
NoRet == [kind |-> "none", status |-> 0, content |-> {}, transcription |-> ""]
NoResp == [status |-> 0, body |-> {}]

Init ==
  /\ running = 0
  /\ pc = [r \in Requests |-> "idle"]
  /\ ctype = [r \in Requests |-> << >>]
  /\ filename = [r \in Requests |-> << >>]
  /\ modelField = [r \in Requests |-> Omitted]
  /\ upos = [r \in Requests |-> "start"]
  /\ fs = {}
  /\ creator = [p \in Paths |-> {}]
  /\ inPath = [r \in Requests |-> 0]
  /\ outPath = [r \in Requests |-> 0]
  /\ exc = [r \in Requests |-> NoExc]
  /\ audio = [r \in Requests |-> NoAudio]
  /\ toolRuns = [r \in Requests |-> 0]
  /\ toolActive = [r \in Requests |-> FALSE]
  /\ toolExit = [r \in Requests |-> "none"]
  /\ toolStderr = [r \in Requests |-> ""]
  /\ apiCalls = [r \in Requests |-> 0]
  /\ apiActive = [r \in Requests |-> FALSE]
  /\ apiArgs = [r \in Requests |-> NoArgs]
  /\ apiExit = [r \in Requests |-> "none"]
  /\ transcription = [r \in Requests |-> ""]
  /\ ret = [r \in Requests |-> NoRet]
  /\ resp = [r \in Requests |-> NoResp]
  /\ managerCalls = [r \in Requests |-> 0]
  /\ tempCount = [r \in Requests |-> 0]
  /\ respCount = [r \in Requests |-> 0]
  /\ lastAccess = {}

\* one file operation: who did what to which path, and whose file it was
Access(r, op, p) == [req |-> r, op |-> op, path |-> p, owner |-> creator[p]]

\* Form(...) = "whisper-1": the handler's `model` parameter
ModelParam(field) == IF field = Omitted THEN DefaultModel ELSE field

\* dtos.ErrorResponse(error=...).model_dump()
ErrorResponseDump(error) == { <<"success", "false">>, <<"error", error>> }

\* dtos.TranscriptionResponse(transcription=...) as JSON
TranscriptionResponseJson(text) == { <<"transcription", text>>, <<"success", "true">> }

\* ------------------------------------------------ decisions of the code
\* fastapi_app.transcribe_media: `not content_type or not startswith(...)`
ContentTypeRejected(ct) ==
  \/ ct = << >>
  \/ ~ \E prefix \in AcceptedPrefixes : StartsWith(ct, prefix)

\* the value returned on rejection: a (dict, 400) tuple, not a Response
RejectionReturn ==
  [kind |-> "tuple", status |-> 400,
   content |-> { <<"msg", "El archivo debe ser de tipo audio o video">> },
   transcription |-> ""]

\* the suffix compared without lower-casing
FileExtensionCaseSensitive(name) == PathSuffix(OrDefault(name, << >>))

\* Path(uploaded_file.filename or "").suffix.lower()
FileExtension(name) == Lower(PathSuffix(OrDefault(name, << >>)))

\* `file_extension in [".mp3", ".wav", ".m4a", ".flac", ".ogg"]`
AlreadySupported(name) == FileExtension(name) \in SupportedExtensions

\* a direct path that always sends the fallback name
DirectFilenameFallback(name) == AudioFallback

\* `uploaded_file.filename or "audio"` on the direct path
DirectFilename(name) == OrDefault(name, AudioFallback)

\* a name built from the whole filename instead of its stem
ExtractedFilenameKeepSuffix(name) == PathName(OrDefault(name, AudioFallback)) \o Mp3Suffix

\* f"{Path(uploaded_file.filename or 'audio').stem}.mp3"
ExtractedFilename(name) == PathStem(OrDefault(name, AudioFallback)) \o Mp3Suffix

\* a handler that puts str(e) in the body
HandlerErrorContentLeaky(e) == ErrorResponseDump(e.kind)

\* the content of the JSONResponse built in the handler's except clause
HandlerErrorContent(e) == ErrorResponseDump(GenericError)

\* the handler's except clause: JSONResponse(status_code=500, content=...)
HandlerErrorReturn(e) ==
  [kind |-> "JSONResponse", status |-> 500,
   content |-> HandlerErrorContent(e), transcription |-> ""]

\* the handler's normal return: dtos.TranscriptionResponse(transcription=...)
HandlerOkReturn(text) ==
  [kind |-> "TranscriptionResponse", status |-> 0, content |-> {},
   transcription |-> text]

\* What the route sends for a returned value.  A Response object is sent as
\* it is; anything else is validated against response_model
\* (dtos.TranscriptionResponse) and sent with the route's status 200; a value
\* that does not validate (the rejection tuple) ends as the server's own
\* 500 "Internal Server Error".
Serialize(v) ==
  CASE v.kind = "JSONResponse" -> [status |-> v.status, body |-> v.content]
    [] v.kind = "TranscriptionResponse" ->
         [status |-> 200, body |-> TranscriptionResponseJson(v.transcription)]
    [] OTHER -> [status |-> 500, body |-> { <<"", "Internal Server Error">> }]

\* a handler that runs the tool again after a failure
AfterFfmpegErrorRetry == "ffmpeg"

\* where control goes when ffmpeg.Error is caught: logged and re-raised,
\* through the outer except into the finally block
AfterFfmpegError == "unlink_in"

\* a client that starts the extraction over when the API call fails
AfterApiErrorRestart == "validated"

\* where control goes when transcriptions.create raises: logged, re-raised
AfterApiError == "raise"

\* after the finally block: return the payload, or let the exception go on
AfterFinally(e) == IF e.kind = "none" THEN "create" ELSE "raise"

\* ------------------------------------------------------------ actions
\* The server hands a parsed multipart request to the handler.  The `model`
\* form field is read nowhere before the client is called, and is drawn
\* there (CreateTranscription).
Receive(r) ==
  /\ pc[r] = "idle"
  /\ running = 0
  /\ \E ct \in ContentTypes, fn \in Filenames :
       /\ ctype' = [ctype EXCEPT ![r] = ct]
       /\ filename' = [filename EXCEPT ![r] = fn]
  /\ modelField' = modelField
  /\ upos' = [upos EXCEPT ![r] = "start"]
  /\ pc' = [pc EXCEPT ![r] = "received"]
  /\ running' = r
  /\ lastAccess' = {}
  /\ UNCHANGED <<exc, audio, files, temps, tool, api, out>>
  /\ UNCHANGED counts

\* transcribe_media: the content-type check, then into ServiceManager
ValidateContentType(r) ==
  /\ pc[r] = "received"
  /\ running = r
  /\ IF ContentTypeRejected(ctype[r])
     THEN /\ ret' = [ret EXCEPT ![r] = RejectionReturn]
          /\ pc' = [pc EXCEPT ![r] = "return"]
          /\ managerCalls' = managerCalls
     ELSE /\ pc' = [pc EXCEPT ![r] = "validated"]
          /\ managerCalls' = [managerCalls EXCEPT ![r] = @ + 1]
          /\ ret' = ret
  /\ lastAccess' = {}
  /\ UNCHANGED <<running, upos, exc, audio, inputs, files, temps, tool, api, resp>>
  /\ UNCHANGED <<tempCount, respCount>>

\* ServiceManager.transcribe_media -> transcribe_from_upload ->
\* extract_audio_stream: the transcoding decision
ExtractAudioStream(r) ==
  /\ pc[r] = "validated"
  /\ running = r
  /\ IF AlreadySupported(filename[r])
     THEN pc' = [pc EXCEPT ![r] = "seek"]
     ELSE pc' = [pc EXCEPT ![r] = "alloc_in"]
  /\ lastAccess' = {}
  /\ UNCHANGED <<running, upos, exc, audio, inputs, files, temps, tool, api, out>>
  /\ UNCHANGED counts

\* `await uploaded_file.seek(0)` / `await uploaded_file.read()` may give up
\* the event loop
Yield(r) ==
  /\ pc[r] \in {"seek", "read"}
  /\ running = r
  /\ running' = 0
  /\ lastAccess' = {}
  /\ UNCHANGED <<pc, upos, exc, audio, inputs, files, temps, tool, api, out>>
  /\ UNCHANGED counts

\* the direct path: seek(0), return (uploaded_file.file, filename or "audio")
SeekUpload(r) ==
  /\ pc[r] = "seek"
  /\ running \in {0, r}
  /\ running' = r
  /\ \/ /\ upos' = [upos EXCEPT ![r] = "start"]
        /\ audio' = [audio EXCEPT ![r] =
                       [stream |-> "upload", name |-> DirectFilename(filename[r])]]
        /\ pc' = [pc EXCEPT ![r] = "create"]
        /\ exc' = exc
     \/ /\ exc' = [exc EXCEPT ![r] = [kind |-> "SeekError", stderr |-> ""]]
        /\ pc' = [pc EXCEPT ![r] = "raise"]
        /\ UNCHANGED <<upos, audio>>
  /\ lastAccess' = {}
  /\ UNCHANGED <<inputs, files, temps, tool, api, out>>
  /\ UNCHANGED counts

\* ---- _extract_audio_with_ffmpeg
Raise(r, kind) == [exc EXCEPT ![r] = [kind |-> kind, stderr |-> ""]]

\* `with tempfile.NamedTemporaryFile(delete=False, suffix=...) as input_temp`:
\* a name that does not exist is created, or the allocation raises (nothing
\* was created, and the try/finally has not been entered)
AllocInput(r) ==
  /\ pc[r] = "alloc_in"
  /\ running = r
  /\ \/ \E p \in Paths \ fs :
          /\ fs' = fs \cup {p}
          /\ creator' = [creator EXCEPT ![p] = {r}]
          /\ inPath' = [inPath EXCEPT ![r] = p]
          /\ lastAccess' = { [req |-> r, op |-> "create", path |-> p, owner |-> {r}] }
          /\ pc' = [pc EXCEPT ![r] = "alloc_out"]
          /\ tempCount' = [tempCount EXCEPT ![r] = @ + 1]
          /\ exc' = exc
          /\ outPath' = outPath
     \/ /\ exc' = Raise(r, "AllocError")
        /\ pc' = [pc EXCEPT ![r] = "raise"]
        /\ lastAccess' = {}
        /\ tempCount' = tempCount
        /\ UNCHANGED <<files, temps>>
  /\ UNCHANGED <<running, upos, audio, inputs, tool, api, out>>
  /\ UNCHANGED <<managerCalls, respCount>>

\* `with tempfile.NamedTemporaryFile(delete=False, suffix=".mp3") as output_temp`:
\* when this raises, leaving the outer `with` closes input_temp, which with
\* delete=False does not remove it; the try/finally has not been entered
AllocOutput(r) ==
  /\ pc[r] = "alloc_out"
  /\ running = r
  /\ \/ \E p \in Paths \ fs :
          /\ fs' = fs \cup {p}
          /\ creator' = [creator EXCEPT ![p] = {r}]
          /\ outPath' = [outPath EXCEPT ![r] = p]
          /\ lastAccess' = { [req |-> r, op |-> "create", path |-> p, owner |-> {r}] }
          /\ pc' = [pc EXCEPT ![r] = "read"]
          /\ tempCount' = [tempCount EXCEPT ![r] = @ + 1]
          /\ exc' = exc
          /\ inPath' = inPath
     \/ /\ exc' = Raise(r, "AllocError")
        /\ pc' = [pc EXCEPT ![r] = "raise"]
        /\ lastAccess' = {}
        /\ tempCount' = tempCount
        /\ inPath' = [inPath EXCEPT ![r] = 0]
        /\ UNCHANGED <<files, outPath>>
  /\ UNCHANGED <<running, upos, audio, inputs, tool, api, out>>
  /\ UNCHANGED <<managerCalls, respCount>>

\* `content = await uploaded_file.read()`: reads from the current position
\* to the end
ReadUpload(r) ==
  /\ pc[r] = "read"
  /\ running \in {0, r}
  /\ running' = r
  /\ \/ /\ upos' = [upos EXCEPT ![r] = "end"]
        /\ pc' = [pc EXCEPT ![r] = "write"]
        /\ exc' = exc
     \/ /\ exc' = Raise(r, "ReadError")
        /\ pc' = [pc EXCEPT ![r] = "unlink_in"]
        /\ upos' = upos
  /\ lastAccess' = {}
  /\ UNCHANGED <<audio, inputs, files, temps, tool, api, out>>
  /\ UNCHANGED counts

\* `input_temp.write(content); input_temp.flush()`
WriteInput(r) ==
  /\ pc[r] = "write"
  /\ running = r
  /\ \/ /\ pc' = [pc EXCEPT ![r] = "ffmpeg"]
        /\ exc' = exc
     \/ /\ exc' = Raise(r, "WriteError")
        /\ pc' = [pc EXCEPT ![r] = "unlink_in"]
  /\ lastAccess' = { Access(r, "write", inPath[r]) }
  /\ UNCHANGED <<running, upos, audio, inputs, files, temps, tool, api, out>>
  /\ UNCHANGED counts

\* `ffmpeg.input(input).output(output, ...).overwrite_output().run(...)`:
\* the subprocess is started on the two paths
RunFfmpeg(r) ==
  /\ pc[r] = "ffmpeg"
  /\ running = r
  /\ toolRuns' = [toolRuns EXCEPT ![r] = @ + 1]
  /\ toolActive' = [toolActive EXCEPT ![r] = TRUE]
  /\ lastAccess' = { Access(r, "read", inPath[r]), Access(r, "write", outPath[r]) }
  /\ pc' = [pc EXCEPT ![r] = "ffmpeg_running"]
  /\ UNCHANGED <<running, upos, exc, audio, inputs, files, temps, toolExit, toolStderr, api, out>>
  /\ UNCHANGED counts

\* the subprocess exits: zero, or nonzero (ffmpeg.Error with the captured
\* stderr, logged and re-raised)
FfmpegExit(r) ==
  /\ pc[r] = "ffmpeg_running"
  /\ running = r
  /\ toolActive' = [toolActive EXCEPT ![r] = FALSE]
  /\ \/ /\ toolExit' = [toolExit EXCEPT ![r] = "ok"]
        /\ pc' = [pc EXCEPT ![r] = "read_out"]
        /\ UNCHANGED <<toolStderr, exc>>
     \/ \E d \in Diagnostics :
          /\ toolExit' = [toolExit EXCEPT ![r] = "failed"]
          /\ toolStderr' = [toolStderr EXCEPT ![r] = d]
          /\ exc' = [exc EXCEPT ![r] = [kind |-> "ffmpeg.Error", stderr |-> d]]
          /\ pc' = [pc EXCEPT ![r] = AfterFfmpegError]
  /\ lastAccess' = {}
  /\ UNCHANGED <<running, upos, audio, inputs, files, temps, toolRuns, api, out>>
  /\ UNCHANGED counts

\* `with open(output_temp.name, "rb") as audio_file: audio_content = read()`,
\* then BytesIO(audio_content) and the ".mp3" name
ReadOutput(r) ==
  /\ pc[r] = "read_out"
  /\ running = r
  /\ \/ /\ audio' = [audio EXCEPT ![r] =
                       [stream |-> "BytesIO", name |-> ExtractedFilename(filename[r])]]
        /\ exc' = exc
     \/ /\ exc' = Raise(r, "OutputReadError")
        /\ audio' = audio
  /\ pc' = [pc EXCEPT ![r] = "unlink_in"]
  /\ lastAccess' = { Access(r, "read", outPath[r]) }
  /\ UNCHANGED <<running, upos, inputs, files, temps, tool, api, out>>
  /\ UNCHANGED counts

\* finally: `os.unlink(input_temp.name)`; when it raises, the second unlink
\* is skipped and the new exception replaces the one in flight
UnlinkInput(r) ==
  /\ pc[r] = "unlink_in"
  /\ running = r
  /\ \/ /\ inPath[r] \in fs
        /\ fs' = fs \ {inPath[r]}
        /\ creator' = [creator EXCEPT ![inPath[r]] = {}]
        /\ lastAccess' = { Access(r, "unlink", inPath[r]) }
        /\ pc' = [pc EXCEPT ![r] = "unlink_out"]
        /\ exc' = exc
        /\ UNCHANGED temps
     \/ /\ exc' = Raise(r, "UnlinkError")
        /\ pc' = [pc EXCEPT ![r] = "raise"]
        /\ lastAccess' = {}
        /\ inPath' = [inPath EXCEPT ![r] = 0]
        /\ outPath' = [outPath EXCEPT ![r] = 0]
        /\ UNCHANGED files
  /\ UNCHANGED <<running, upos, audio, inputs, tool, api, out>>
  /\ UNCHANGED counts

\* finally: `os.unlink(output_temp.name)`, then return or re-raise; the
\* function's locals input_temp and output_temp go out of scope
UnlinkOutput(r) ==
  /\ pc[r] = "unlink_out"
  /\ running = r
  /\ \/ /\ outPath[r] \in fs
        /\ fs' = fs \ {outPath[r]}
        /\ creator' = [creator EXCEPT ![outPath[r]] = {}]
        /\ lastAccess' = { Access(r, "unlink", outPath[r]) }
        /\ pc' = [pc EXCEPT ![r] = AfterFinally(exc[r])]
        /\ exc' = exc
     \/ /\ exc' = Raise(r, "UnlinkError")
        /\ pc' = [pc EXCEPT ![r] = "raise"]
        /\ lastAccess' = {}
        /\ UNCHANGED files
  /\ inPath' = [inPath EXCEPT ![r] = 0]
  /\ outPath' = [outPath EXCEPT ![r] = 0]
  /\ UNCHANGED <<running, upos, audio, inputs, tool, api, out>>
  /\ UNCHANGED counts

\* ---- transcribe_from_upload, after the extraction
\* `self._client.audio.transcriptions.create(model=model, file=(filename,
\* audio_stream), response_format="text")` is called
CreateTranscription(r) ==
  /\ pc[r] = "create"
  /\ running = r
  /\ apiCalls' = [apiCalls EXCEPT ![r] = @ + 1]
  /\ apiActive' = [apiActive EXCEPT ![r] = TRUE]
  /\ \E field \in ModelFields :
       /\ modelField' = [modelField EXCEPT ![r] = field]
       /\ apiArgs' = [apiArgs EXCEPT ![r] =
            [model |-> ModelParam(field),
             name |-> audio[r].name,
             stream |-> audio[r].stream,
             pos |-> IF audio[r].stream = "upload" THEN upos[r] ELSE "start"]]
  /\ pc' = [pc EXCEPT ![r] = "api_wait"]
  /\ lastAccess' = {}
  /\ UNCHANGED <<running, upos, exc, audio, ctype, filename, files, temps, tool, apiExit, transcription, out>>
  /\ UNCHANGED counts

\* the call returns the text, or raises
ApiReturn(r) ==
  /\ pc[r] = "api_wait"
  /\ running = r
  /\ apiActive' = [apiActive EXCEPT ![r] = FALSE]
  /\ \/ \E t \in Texts :
          /\ transcription' = [transcription EXCEPT ![r] = t]
          /\ apiExit' = [apiExit EXCEPT ![r] = "ok"]
          /\ pc' = [pc EXCEPT ![r] = "transcribed"]
          /\ exc' = exc
     \/ /\ exc' = Raise(r, "ApiError")
        /\ apiExit' = [apiExit EXCEPT ![r] = "failed"]
        /\ pc' = [pc EXCEPT ![r] = AfterApiError]
        /\ transcription' = transcription
  /\ lastAccess' = {}
  /\ UNCHANGED <<running, upos, audio, inputs, files, temps, tool, apiCalls, apiArgs, out>>
  /\ UNCHANGED counts

\* ---- back in the handler
\* `return dtos.TranscriptionResponse(transcription=transcription)`
HandlerReturn(r) ==
  /\ pc[r] = "transcribed"
  /\ running = r
  /\ ret' = [ret EXCEPT ![r] = HandlerOkReturn(transcription[r])]
  /\ pc' = [pc EXCEPT ![r] = "return"]
  /\ lastAccess' = {}
  /\ UNCHANGED <<running, upos, exc, audio, inputs, files, temps, tool, api, resp>>
  /\ UNCHANGED counts

\* `except Exception as e: ... return JSONResponse(status_code=500, ...)`
\* (the adapters' own except clauses log and re-raise on the way)
HandlerExcept(r) ==
  /\ pc[r] = "raise"
  /\ running = r
  /\ ret' = [ret EXCEPT ![r] = HandlerErrorReturn(exc[r])]
  /\ pc' = [pc EXCEPT ![r] = "return"]
  /\ lastAccess' = {}
  /\ UNCHANGED <<running, upos, exc, audio, inputs, files, temps, tool, api, resp>>
  /\ UNCHANGED counts

\* the route turns the returned value into the HTTP response
Respond(r) ==
  /\ pc[r] = "return"
  /\ running = r
  /\ resp' = [resp EXCEPT ![r] = Serialize(ret[r])]
  /\ pc' = [pc EXCEPT ![r] = "done"]
  /\ lastAccess' = {}
  /\ UNCHANGED <<running, upos, exc, audio, inputs, files, temps, tool, api, ret>>
  /\ respCount' = [respCount EXCEPT ![r] = @ + 1]
  /\ UNCHANGED <<managerCalls, tempCount>>

\* the request is over: its Upload and locals are discarded, the loop is free
Finish(r) ==
  /\ pc[r] = "done"
  /\ running = r
  /\ running' = 0
  /\ pc' = [pc EXCEPT ![r] = "idle"]
  /\ ctype' = [ctype EXCEPT ![r] = << >>]
  /\ filename' = [filename EXCEPT ![r] = << >>]
  /\ modelField' = [modelField EXCEPT ![r] = Omitted]
  /\ upos' = [upos EXCEPT ![r] = "start"]
  /\ inPath' = [inPath EXCEPT ![r] = 0]
  /\ outPath' = [outPath EXCEPT ![r] = 0]
  /\ exc' = [exc EXCEPT ![r] = NoExc]
  /\ audio' = [audio EXCEPT ![r] = NoAudio]
  /\ toolRuns' = [toolRuns EXCEPT ![r] = 0]
  /\ toolActive' = [toolActive EXCEPT ![r] = FALSE]
  /\ toolExit' = [toolExit EXCEPT ![r] = "none"]
  /\ toolStderr' = [toolStderr EXCEPT ![r] = ""]
  /\ apiCalls' = [apiCalls EXCEPT ![r] = 0]
  /\ apiActive' = [apiActive EXCEPT ![r] = FALSE]
  /\ apiArgs' = [apiArgs EXCEPT ![r] = NoArgs]
  /\ apiExit' = [apiExit EXCEPT ![r] = "none"]
  /\ transcription' = [transcription EXCEPT ![r] = ""]
  /\ managerCalls' = [managerCalls EXCEPT ![r] = 0]
  /\ tempCount' = [tempCount EXCEPT ![r] = 0]
  /\ respCount' = [respCount EXCEPT ![r] = 0]
  /\ ret' = [ret EXCEPT ![r] = NoRet]
  /\ resp' = [resp EXCEPT ![r] = NoResp]
  /\ lastAccess' = {}
  /\ creator' = [p \in Paths |-> creator[p] \ {r}]
  /\ fs' = fs

Next ==
  \E r \in Requests :
    \/ Receive(r)
    \/ ValidateContentType(r)
    \/ ExtractAudioStream(r)
    \/ Yield(r)
    \/ SeekUpload(r)
    \/ AllocInput(r)
    \/ AllocOutput(r)
    \/ ReadUpload(r)
    \/ WriteInput(r)
    \/ RunFfmpeg(r)
    \/ FfmpegExit(r)
    \/ ReadOutput(r)
    \/ UnlinkInput(r)
    \/ UnlinkOutput(r)
    \/ CreateTranscription(r)
    \/ ApiReturn(r)
    \/ HandlerReturn(r)
    \/ HandlerExcept(r)
    \/ Respond(r)
    \/ Finish(r)

Spec == Init /\ [][Next]_vars

\* ------------------------------------------------- claims: vocabulary
\* paths that exist and were created by request r's handling in progress
OwnFiles(r) == { p \in Paths : p \in fs /\ r \in creator[p] }

\* positions after _extract_audio_with_ffmpeg has returned or raised
LeftExtraction(r) ==
  pc[r] \in {"create", "api_wait", "transcribed", "raise", "return", "done"}

\* a content type that is absent or begins with neither audio/ nor video/
BadContentType(ct) ==
  \/ Len(ct) = 0
  \/ /\ ~ StartsWith(ct, <<"a","u","d","i","o","/">>)
     /\ ~ StartsWith(ct, <<"v","i","d","e","o","/">>)

GenericBody == { <<"success", "false">>, <<"error", "Error interno del servidor">> }

\* ------------------------------------------------------------ C1
\* C1: every temporary file a transcoding attempt created is gone when
\* _extract_audio_with_ffmpeg returns or re-raises, on every exit path.
\* Violated: when the second NamedTemporaryFile raises, the first file was
\* created with delete=False outside the try/finally and stays; when
\* os.unlink(input_temp.name) raises, output_temp is never unlinked.
C1_TempFilesGoneOnExit ==
  \A r \in Requests :
    (LeftExtraction(r) /\ tempCount[r] > 0) => OwnFiles(r) = {}

\* ------------------------------------------------------------ C2
\* C2: a request whose content type is absent or neither audio/* nor video/*
\* is answered with HTTP 400 and reaches no downstream component.
\* Violated: the handler returns a (dict, 400) tuple, which the route does
\* not send as a 400 response.
C2_RejectedWith400 ==
  \A r \in Requests :
    (pc[r] = "done" /\ BadContentType(ctype[r])) =>
      /\ resp[r].status = 400
      /\ managerCalls[r] = 0
      /\ tempCount[r] = 0
      /\ toolRuns[r] = 0
      /\ apiCalls[r] = 0

\* ------------------------------------------------------------ C3
\* C3: once the content type was accepted, any exception raised while the
\* request is processed ends in HTTP 500 with the body
\* {"success": false, "error": "Error interno del servidor"}, whatever the
\* kind or message of the exception.
C3_GenericServerError ==
  \A r \in Requests :
    (pc[r] = "done" /\ exc[r].kind # "none") =>
      /\ ~ BadContentType(ctype[r])
      /\ resp[r] = [status |-> 500, body |-> GenericBody]

\* a tool failure with a diagnostic message has been answered
C3_Witness ==
  \E r \in Requests :
    /\ pc[r] = "done"
    /\ exc[r].kind = "ffmpeg.Error"
    /\ exc[r].stderr # ""

\* ------------------------------------------------------------ C4
\* str.endswith(t)
EndsWith(s, t) ==
  /\ Len(t) <= Len(s)
  /\ SubSeq(s, Len(s) - Len(t) + 1, Len(s)) = t

\* the filename's last component is a nonempty base followed, in any letter
\* case, by one of .mp3 .wav .m4a .flac .ogg
HasSupportedExtension(name) ==
  LET n == Lower(PathName(name))
  IN \E ext \in { <<".","m","p","3">>, <<".","w","a","v">>, <<".","m","4","a">>,
                  <<".","f","l","a","c">>, <<".","o","g","g">> } :
       Len(n) > Len(ext) /\ EndsWith(n, ext)

\* a finished request that was accepted, needed transcoding, and whose tool
\* run and API call both succeeded
TranscodedOk(r) ==
  /\ pc[r] = "done"
  /\ ~ BadContentType(ctype[r])
  /\ ~ HasSupportedExtension(filename[r])
  /\ toolExit[r] = "ok"
  /\ apiExit[r] = "ok"

\* the tool ran, the client got the request's model, the answer is 200 with
\* the client's text
TranscodedOutcome(r) ==
  /\ toolRuns[r] = 1
  /\ apiCalls[r] = 1
  /\ apiArgs[r].model = (IF modelField[r] = Omitted THEN "whisper-1" ELSE modelField[r])
  /\ resp[r] = [status |-> 200,
                body |-> { <<"transcription", transcription[r]>>, <<"success", "true">> }]

\* C4 as stated: for every upload that needs transcoding, when tool and API
\* succeed the client is called with the original filename's stem followed
\* by ".mp3" and the request's model, and the answer is 200 with the text.
\* Violated by an upload without a filename: the client gets "audio.mp3".
C4_StemPlusMp3 ==
  \A r \in Requests :
    TranscodedOk(r) =>
      /\ TranscodedOutcome(r)
      /\ apiArgs[r].name = PathStem(filename[r]) \o <<".","m","p","3">>

\* C4 amended: the same, with the name "audio.mp3" when the upload has no
\* (or an empty) filename, and stem + ".mp3" otherwise.
C4_TranscodedCall ==
  \A r \in Requests :
    TranscodedOk(r) =>
      /\ TranscodedOutcome(r)
      /\ apiArgs[r].name =
           IF Len(filename[r]) = 0
           THEN <<"a","u","d","i","o",".","m","p","3">>
           ELSE PathStem(filename[r]) \o <<".","m","p","3">>

\* clip.mp4 with the model omitted was transcoded, sent as clip.mp3 and
\* answered 200
C4_Witness ==
  \E r \in Requests :
    /\ TranscodedOk(r)
    /\ filename[r] = ClipMp4
    /\ modelField[r] = Omitted
    /\ apiArgs[r].name = <<"c","l","i","p",".","m","p","3">>
    /\ apiArgs[r].model = "whisper-1"
    /\ resp[r].status = 200

\* ------------------------------------------------------------ C5
\* C5: for an accepted upload whose filename is already supported, no
\* temporary file is created, the tool is never started, and the client is
\* called with the upload's own stream at its start and the original filename.
C5_DirectPath ==
  \A r \in Requests :
    (~ BadContentType(ctype[r]) /\ HasSupportedExtension(filename[r])) =>
      /\ tempCount[r] = 0
      /\ toolRuns[r] = 0
      /\ ~ toolActive[r]
      /\ apiCalls[r] > 0 =>
           /\ apiArgs[r].stream = "upload"
           /\ apiArgs[r].pos = "start"
           /\ apiArgs[r].name = filename[r]

\* voice.mp3 is being sent to the API as the upload's own stream
C5_Witness ==
  \E r \in Requests :
    /\ apiActive[r]
    /\ filename[r] = VoiceMp3
    /\ apiArgs[r].stream = "upload"

\* ------------------------------------------------------------ C7
\* C7: per request the tool is started at most once and the API is called
\* at most once (no retry), the two are never in progress together, and
\* when both happen the tool has exited and the request's temporary files
\* are gone before the API call begins.
C7_AtMostOnceInSequence ==
  \A r \in Requests :
    /\ toolRuns[r] <= 1
    /\ apiCalls[r] <= 1
    /\ ~ (toolActive[r] /\ apiActive[r])
    /\ (apiCalls[r] > 0 /\ toolRuns[r] > 0) =>
         /\ toolExit[r] = "ok"
         /\ ~ toolActive[r]
         /\ OwnFiles(r) = {}

\* the API call is in progress after a tool run
C7_Witness ==
  \E r \in Requests : apiActive[r] /\ toolRuns[r] = 1

\* ------------------------------------------------------------ C6
\* Filenames for the transcoding decision alone: every string of at most
\* MaxNameLen characters over ProbeAlphabet, and some longer samples.
ProbeAlphabet == { ".", "/", "a", "M", "p", "3" }
ProbeSamples ==
  { <<"x",".","w","a","v">>, <<"x",".","W","A","V">>, <<"x",".","m","4","a">>,
    <<"x",".","f","l","a","c">>, <<"x",".","F","l","A","c">>, <<"x",".","o","g","g">>,
    <<"x",".","m","p","3">>, <<"x",".","m","p","4">>, <<"x",".","m","p","3","x">>,
    <<"x",".","m","p","3",".","t","x","t">>, <<"x",".","t","x","t",".","o","g","g">>,
    <<"f","l","a","c">>, <<".","f","l","a","c">>, <<"d",".","w","a","v","/","x">>,
    ClipMp4, VoiceMp3 }
ProbeNames ==
  ProbeSamples \cup UNION { [1..k -> ProbeAlphabet] : k \in 0..MaxNameLen }

\* request 1 has been accepted and is about to enter extract_audio_stream
InitProbe ==
  /\ running = 1
  /\ pc = [r \in Requests |-> IF r = 1 THEN "validated" ELSE "idle"]
  /\ ctype \in { [r \in Requests |-> IF r = 1 THEN ct ELSE << >>] :
                   ct \in {VideoMp4, AudioMpeg} }
  /\ filename \in { [r \in Requests |-> IF r = 1 THEN fn ELSE << >>] :
                      fn \in ProbeNames }
  /\ modelField = [r \in Requests |-> Omitted]
  /\ upos = [r \in Requests |-> "start"]
  /\ fs = {}
  /\ creator = [p \in Paths |-> {}]
  /\ inPath = [r \in Requests |-> 0]
  /\ outPath = [r \in Requests |-> 0]
  /\ exc = [r \in Requests |-> NoExc]
  /\ audio = [r \in Requests |-> NoAudio]
  /\ toolRuns = [r \in Requests |-> 0]
  /\ toolActive = [r \in Requests |-> FALSE]
  /\ toolExit = [r \in Requests |-> "none"]
  /\ toolStderr = [r \in Requests |-> ""]
  /\ apiCalls = [r \in Requests |-> 0]
  /\ apiActive = [r \in Requests |-> FALSE]
  /\ apiArgs = [r \in Requests |-> NoArgs]
  /\ apiExit = [r \in Requests |-> "none"]
  /\ transcription = [r \in Requests |-> ""]
  /\ ret = [r \in Requests |-> NoRet]
  /\ resp = [r \in Requests |-> NoResp]
  /\ managerCalls = [r \in Requests |-> IF r = 1 THEN 1 ELSE 0]
  /\ tempCount = [r \in Requests |-> 0]
  /\ respCount = [r \in Requests |-> 0]
  /\ lastAccess = {}

NextProbe == \E r \in Requests : ExtractAudioStream(r)

SpecProbe == InitProbe /\ [][NextProbe]_vars

\* C6: the decision depends on the filename alone: the direct path is taken
\* exactly when the filename's extension is, in any letter case, one of
\* .mp3 .wav .m4a .flac .ogg; every other filename, one without extension or
\* a missing one included, goes to transcoding.
C6_DecisionByExtension ==
  \A r \in Requests :
    /\ pc[r] = "seek" => HasSupportedExtension(filename[r])
    /\ pc[r] = "alloc_in" => ~ HasSupportedExtension(filename[r])

\* a filename with an upper-case extension took the direct path
C6_Witness ==
  \E r \in Requests :
    /\ pc[r] = "seek"
    /\ filename[r] # Lower(filename[r])

\* ------------------------------------------------------------ C8
\* the program's own steps of request r, the tool's exit and the API's return
Progress(r) ==
  \/ ValidateContentType(r)
  \/ ExtractAudioStream(r)
  \/ AllocInput(r)
  \/ AllocOutput(r)
  \/ WriteInput(r)
  \/ RunFfmpeg(r)
  \/ FfmpegExit(r)
  \/ ReadOutput(r)
  \/ UnlinkInput(r)
  \/ UnlinkOutput(r)
  \/ CreateTranscription(r)
  \/ ApiReturn(r)
  \/ HandlerReturn(r)
  \/ HandlerExcept(r)
  \/ Respond(r)
  \/ Finish(r)

\* Straight-line code goes on, the tool exits and the API returns (weak
\* fairness); a coroutine waiting on seek or read is resumed by the event
\* loop although other requests hold the loop in between (strong fairness).
\* Requests arrive or not: Receive is not fair.
FairSpec ==
  /\ Spec
  /\ \A r \in Requests :
       /\ WF_vars(Progress(r))
       /\ SF_vars(SeekUpload(r))
       /\ SF_vars(ReadUpload(r))

\* the state of the request's handling, in the words of the pipeline
Stage(r) ==
  CASE pc[r] = "idle" -> "none"
    [] pc[r] = "received" -> "received"
    [] pc[r] = "validated" -> "validated"
    [] pc[r] = "seek" -> "direct"
    [] pc[r] \in {"alloc_in", "alloc_out", "read", "write", "ffmpeg",
                  "ffmpeg_running", "read_out", "unlink_in", "unlink_out"} -> "transcoded"
    [] pc[r] \in {"create", "api_wait"} ->
         IF audio[r].stream = "upload" THEN "direct" ELSE "transcoded"
    [] pc[r] = "transcribed" -> "transcribed"
    [] pc[r] = "raise" -> "error"
    [] pc[r] \in {"return", "done"} ->
         IF ret[r].kind # "TranscriptionResponse" THEN "error"
         ELSE IF pc[r] = "return" THEN "transcribed" ELSE "responded"

\* received -> validated -> (direct | transcoded) -> transcribed -> responded,
\* the error terminal entered from a state of the pipeline, and a slot taking
\* its next request after a terminal
StageEdges ==
  { <<"none", "received">>, <<"received", "validated">>,
    <<"validated", "direct">>, <<"validated", "transcoded">>,
    <<"direct", "transcribed">>, <<"transcoded", "transcribed">>,
    <<"transcribed", "responded">>,
    <<"received", "error">>, <<"direct", "error">>,
    <<"transcoded", "error">>, <<"transcribed", "error">>,
    <<"responded", "none">>, <<"error", "none">> }

\* C8: a request's handling runs received -> validated -> (direct |
\* transcoded) -> transcribed -> responded, or ends in error; no state is
\* entered twice, a validated request takes exactly one of the two branches,
\* transcribed follows direct or transcoded only, at most one response is
\* sent, and, the tool and the API returning or failing, every request
\* received ends responded or in error with exactly one response.
C8_Pipeline ==
  /\ [][\A r \in Requests :
          \/ Stage(r)' = Stage(r)
          \/ <<Stage(r), Stage(r)'>> \in StageEdges]_vars
  /\ [](\A r \in Requests :
          /\ respCount[r] <= 1
          /\ pc[r] = "done" => (respCount[r] = 1 /\ Stage(r) \in {"responded", "error"}))
  /\ \A r \in Requests : (pc[r] = "received") ~> (pc[r] = "done")

\* a request went through transcoding and was answered once
C8_Witness ==
  \E r \in Requests :
    /\ Stage(r) = "responded"
    /\ toolRuns[r] = 1
    /\ respCount[r] = 1

\* ------------------------------------------------------------ C9
\* C9: when the tool reports failure, _extract_audio_with_ffmpeg raises the
\* ffmpeg error with the captured stderr, the tool is not run again, the API
\* is never called, and the request ends with the generic 500 and its
\* temporary files removed.
\* Violated: when os.unlink(input_temp.name) then raises in the finally block
\* (the defect of C1), the output file stays and the error that leaves the
\* function is the unlink's.
C9_ToolFailure ==
  \A r \in Requests :
    (pc[r] = "done" /\ toolExit[r] = "failed") =>
      /\ exc[r] = [kind |-> "ffmpeg.Error", stderr |-> toolStderr[r]]
      /\ toolRuns[r] = 1
      /\ apiCalls[r] = 0
      /\ resp[r] = [status |-> 500, body |-> GenericBody]
      /\ OwnFiles(r) = {}

\* ------------------------------------------------------------ C10
\* the temporary paths request r holds in input_temp and output_temp
Held(r) == {inPath[r], outPath[r]} \cap fs

\* requests in flight hold disjoint temporary paths
DisjointHeld ==
  \A r, s \in Requests : r # s => Held(r) \cap Held(s) = {}

\* every read, write and unlink is on a file the request itself created
OwnAccessOnly ==
  \A a \in lastAccess : a.owner = {a.req}

\* C10: requests in flight hold pairwise disjoint temporary paths, a request
\* reads, writes and deletes only files it created itself, and once every
\* request has finished no temporary file remains.
\* Violated in its last part: a file left behind by the defect of C1 is still
\* there when all requests have finished.
C10_Isolation ==
  /\ DisjointHeld
  /\ OwnAccessOnly
  /\ (\A r \in Requests : pc[r] = "idle") => fs = {}

\* ------------------------------------------------------------ C11
\* longest generated filename that is followed through to the API call
MaxSentLen == 3

\* filenames followed through the whole handling: every name of up to
\* MaxSentLen characters over the probe alphabet, and the sample names
SentNames == { n \in ProbeNames : Len(n) <= MaxSentLen \/ n \in ProbeSamples }

\* request 1 has been accepted, with any of the filenames above
InitSent == InitProbe /\ filename[1] \in SentNames

\* the handling of an accepted request, up to its response
NextSent ==
  \E r \in Requests :
    \/ ExtractAudioStream(r)
    \/ Yield(r)
    \/ SeekUpload(r)
    \/ AllocInput(r)
    \/ AllocOutput(r)
    \/ ReadUpload(r)
    \/ WriteInput(r)
    \/ RunFfmpeg(r)
    \/ FfmpegExit(r)
    \/ ReadOutput(r)
    \/ UnlinkInput(r)
    \/ UnlinkOutput(r)
    \/ CreateTranscription(r)
    \/ ApiReturn(r)
    \/ HandlerReturn(r)
    \/ HandlerExcept(r)
    \/ Respond(r)

SpecSent == InitSent /\ [][NextSent]_vars

\* the name ends, in any letter case, with one of .mp3 .wav .m4a .flac .ogg
EndsSupported(name) ==
  \E ext \in { <<".","m","p","3">>, <<".","w","a","v">>, <<".","m","4","a">>,
               <<".","f","l","a","c">>, <<".","o","g","g">> } :
    EndsWith(Lower(name), ext)

SentNameEndsSupported ==
  \A r \in Requests :
    apiCalls[r] > 0 =>
      /\ apiArgs[r].name # AudioFallback
      /\ EndsSupported(apiArgs[r].name)
      /\ HasSupportedExtension(apiArgs[r].name) \/ apiArgs[r].name = Mp3Suffix
      /\ \/ toolRuns[r] = 0 /\ apiArgs[r].name = filename[r]
         \/ toolRuns[r] = 1 /\ EndsWith(apiArgs[r].name, Mp3Suffix)
====
